---------------------------- MODULE Spec2Model ----------------------------
(***************************************************************************)
(* Model of input_features_dai/__init__.py: the input-table materializer   *)
(* (_ds_to_table, _ds_to_tables), the expression-to-SQL compiler           *)
(* (_split_expr, _build_sql_from_expr) and the query assembler (run).      *)
(*                                                                         *)
(* A Python str is a sequence of one-character strings, so that strip,     *)
(* split, the regular expressions and the string concatenations are        *)
(* computed character by character as the interpreter computes them.       *)
(***************************************************************************)
EXTENDS Integers, Sequences, FiniteSets, TLC

VARIABLES
    pc,            \* "call" before the function under study runs, then "return" or "raise"
    given,         \* how the arguments were composed (statements, words, table entries)
    ds,            \* argument of _ds_to_table
    table,         \* dict returned by _ds_to_table
    inputs,        \* [input_1, input_2, input_3] of run / argument of _ds_to_tables
    params,        \* the remaining parameters of run / _build_sql_from_expr
    input_tables,  \* dict returned by _ds_to_tables
    built,         \* locals of _build_sql_from_expr at its return
    base_sql,      \* final_sql of run when line 284 is reached
    final_sql      \* final_sql of run, as passed to _create_ds_from_sql

vars == <<pc, given, ds, table, inputs, params, input_tables, built, base_sql, final_sql>>

-----------------------------------------------------------------------------
(* Bounds of the explored arguments *)

MaxStmts == 2
MaxPieces == 3
MaxDefaults == 3

-----------------------------------------------------------------------------
(* Python str primitives *)

Min(S) == CHOOSE i \in S : \A j \in S : i <= j

WHITESPACE == {" ", "\n", "\t"}

Digits == {"0", "1", "2", "3", "4", "5", "6", "7", "8", "9"}

Letters ==
    {"a", "b", "c", "d", "e", "f", "g", "h", "i", "j", "k", "l", "m",
     "n", "o", "p", "q", "r", "s", "t", "u", "v", "w", "x", "y", "z",
     "A", "B", "C", "D", "E", "F", "G", "H", "I", "J", "K", "L", "M",
     "N", "O", "P", "Q", "R", "S", "T", "U", "V", "W", "X", "Y", "Z"}

IdentStartChars == Letters \cup {"_"}
WordChars == Letters \cup Digits \cup {"_"}

\* regex class [a-zA-Z_]
IsIdentStart(c) == c \in IdentStartChars

\* regex class \w
IsWordChar(c) == c \in WordChars

From(s, i) == SubSeq(s, i, Len(s))

\* first position from i on whose character is not in chars (Len(s) + 1 if none)
RECURSIVE FirstKept(_, _, _)
FirstKept(s, chars, i) ==
    IF i > Len(s) \/ s[i] \notin chars THEN i ELSE FirstKept(s, chars, i + 1)

\* last position up to i whose character is not in chars (0 if none)
RECURSIVE LastKept(_, _, _)
LastKept(s, chars, i) ==
    IF i < 1 \/ s[i] \notin chars THEN i ELSE LastKept(s, chars, i - 1)

\* s.strip(chars): leading and trailing characters of chars removed
StripChars(s, chars) == SubSeq(s, FirstKept(s, chars, 1), LastKept(s, chars, Len(s)))

\* s.strip()
Strip(s) == StripChars(s, WHITESPACE)

\* s.startswith(p)
StartsWith(s, p) == Len(s) >= Len(p) /\ SubSeq(s, 1, Len(p)) = p

\* p in s
Contains(s, p) == \E i \in 1..(Len(s) - Len(p) + 1) : SubSeq(s, i, i + Len(p) - 1) = p

\* s.split(c): every separator cuts, empty pieces are kept
RECURSIVE Split(_, _)
Split(s, c) ==
    LET at == {i \in 1..Len(s) : s[i] = c}
    IN  IF at = {} THEN <<s>>
        ELSE <<SubSeq(s, 1, Min(at) - 1)>> \o Split(From(s, Min(at) + 1), c)

\* s.split(c, 1): cut at the first separator only
SplitOnce(s, c) ==
    LET at == {i \in 1..Len(s) : s[i] = c}
    IN  IF at = {} THEN <<s>>
        ELSE <<SubSeq(s, 1, Min(at) - 1), From(s, Min(at) + 1)>>

\* s.splitlines(): no piece for the empty tail after a final line break
RECURSIVE SplitLines(_)
SplitLines(s) ==
    LET at == {i \in 1..Len(s) : s[i] = "\n"}
    IN  IF s = <<>> THEN <<>>
        ELSE IF at = {} THEN <<s>>
        ELSE <<SubSeq(s, 1, Min(at) - 1)>> \o SplitLines(From(s, Min(at) + 1))

\* sep.join(list)
RECURSIVE Join(_, _)
Join(list, sep) ==
    IF list = <<>> THEN <<>>
    ELSE IF Len(list) = 1 THEN list[1]
    ELSE list[1] \o sep \o Join(Tail(list), sep)

\* "".join(list)
RECURSIVE Concat(_)
Concat(list) == IF list = <<>> THEN <<>> ELSE Head(list) \o Concat(Tail(list))

\* sequences over S of length lo..hi
SeqsOf(S, lo, hi) == UNION {[1..n -> S] : n \in lo..hi}

-----------------------------------------------------------------------------
(* _ds_to_table *)

\* uuid.uuid4().hex, shortened to one hexadecimal digit
UuidHex == {<<"a">>, <<"b">>, <<"c">>}

T_PREFIX == <<"_","t","_">>
CREATE_TABLE == <<"C","R","E","A","T","E"," ","T","A","B","L","E"," ">>
AS_ == <<" ","A","S"," ">>
STMT_END == <<";","\n">>

\* bigdb.connect().parse_query(sql): the statements of sql in order, each with
\* its terminating ";" and the whitespace around it; blank text has none
RECURSIVE ParseQuery(_)
ParseQuery(sql) ==
    LET at == {i \in 1..Len(sql) : sql[i] = ";"}
    IN  IF Strip(sql) = <<>> THEN <<>>
        ELSE IF at = {} THEN <<sql>>
        ELSE <<SubSeq(sql, 1, Min(at))>> \o ParseQuery(From(sql, Min(at) + 1))

\* an unbound input port
NoneRef == [kind |-> "None", type |-> "", payload |-> <<>>, id |-> <<>>]

\* a str argument of _ds_to_table
StrRef(text) == [kind |-> "str", type |-> "", payload |-> text, id |-> <<>>]

\* a DataSource argument: ds.type, what ds.read() holds (for "json" its "sql"
\* entry), ds.id
DsRef(type, payload, id) == [kind |-> "DataSource", type |-> type, payload |-> payload, id |-> id]

\* line 118 compares `type`, the builtin class, with "text"
TypeIsText(type_) == FALSE

\* lines 112-122: the branches that assign sql
HasSql(x) == x.kind = "str" \/ x.type = "json" \/ TypeIsText(x.type)

\* lines 113, 117, 119
SqlOf(x) == x.payload

\* line 127
PartsOf(sql) == [i \in 1..Len(ParseQuery(sql)) |-> StripChars(Strip(ParseQuery(sql)[i]), {";"})]

\* RewriteLast gone wrong: parts[0] is rewritten instead of parts[-1]
RewriteFirst(parts, table_id) ==
    [parts EXCEPT ![1] = CREATE_TABLE \o table_id \o AS_ \o parts[1]]

\* line 128
RewriteLast(parts, table_id) ==
    [parts EXCEPT ![Len(parts)] = CREATE_TABLE \o table_id \o AS_ \o parts[Len(parts)]]

\* lines 129-131
PrepSql(parts) ==
    LET sql == Join(parts, STMT_END)
    IN  IF sql # <<>> THEN sql \o STMT_END ELSE sql

\* line 128: parts[-1] of an empty list raises IndexError
DsRaises(x) == HasSql(x) /\ PartsOf(SqlOf(x)) = <<>>

\* _ds_to_table(ds) with uuid.uuid4().hex = hex
DsToTable(x, hex) ==
    IF ~HasSql(x) THEN [sql |-> <<>>, table_id |-> x.id]
    ELSE LET table_id == T_PREFIX \o hex
         IN  [sql |-> PrepSql(RewriteLast(PartsOf(SqlOf(x)), table_id)),
              table_id |-> table_id]

-----------------------------------------------------------------------------
(* _ds_to_tables *)

INPUT_ == <<"i","n","p","u","t","_">>
DigitOf == <<"1", "2", "3">>

\* f"input_{i+1}" for the 0-based position i = k - 1
InputName(k) == INPUT_ \o <<DigitOf[k]>>

\* lines 143-148: the tables of the bound inputs from position k on
RECURSIVE ItemsFrom(_, _, _)
ItemsFrom(ins, hexes, k) ==
    IF k > Len(ins) THEN <<>>
    ELSE IF ins[k] = NoneRef THEN ItemsFrom(ins, hexes, k + 1)
    ELSE LET t == DsToTable(ins[k], hexes[k])
         IN  <<[sql |-> t.sql, table_id |-> t.table_id, name |-> InputName(k)]>>
                 \o ItemsFrom(ins, hexes, k + 1)

\* line 153
ItemsSql(items) == Concat([i \in 1..Len(items) |-> items[i].sql])

\* lines 150-154
DsToTables(ins, hexes) ==
    LET items == ItemsFrom(ins, hexes, 1)
    IN  [items |-> items,
         map |-> [n \in {items[i].name : i \in 1..Len(items)} |->
                     (CHOOSE x \in {items[i] : i \in 1..Len(items)} : x.name = n)],
         sql |-> ItemsSql(items)]

DsToTablesRaises(ins) == \E k \in 1..Len(ins) : ins[k] # NoneRef /\ DsRaises(ins[k])

-----------------------------------------------------------------------------
(* _split_expr *)

DASHES == <<"-","-">>
HASH == <<"#">>

\* lines 161-164
IsCodeLine(line) == line # <<>> /\ ~StartsWith(line, DASHES) /\ ~StartsWith(line, HASH)

\* lines 157-167
SplitExpr(expr) ==
    LET raw == SplitLines(expr)
    IN  SelectSeq([i \in 1..Len(raw) |-> Strip(raw[i])], IsCodeLine)

-----------------------------------------------------------------------------
(* REMOVE_STRING_RE, TABLE_NAME_RE *)

QUOTE == "'"

\* RemoveStrings gone wrong: nothing is cut out
KeepStrings(s) == s

\* REMOVE_STRING_RE.sub('', s): each leftmost '[^']*' is cut out
RECURSIVE RemoveStrings(_)
RemoveStrings(s) ==
    LET quotes == {i \in 1..Len(s) : s[i] = QUOTE}
        open == Min(quotes)
        close == Min(quotes \ {open})
    IN  IF Cardinality(quotes) < 2 THEN s
        ELSE SubSeq(s, 1, open - 1) \o RemoveStrings(From(s, close + 1))

\* last position of the run of \w that starts at i (i - 1 when s[i] is not \w)
RECURSIVE WordEnd(_, _)
WordEnd(s, i) == IF i > Len(s) \/ ~IsWordChar(s[i]) THEN i - 1 ELSE WordEnd(s, i + 1)

\* (?<!\.)\b[a-zA-Z_]\w*\b(?=\.[a-zA-Z_*]) matches at i, ending at e
TableNameAt(s, i, e) ==
    /\ IsIdentStart(s[i])
    /\ i = 1 \/ (s[i - 1] # "." /\ ~IsWordChar(s[i - 1]))
    /\ e + 2 <= Len(s)
    /\ s[e + 1] = "."
    /\ IsIdentStart(s[e + 2]) \/ s[e + 2] = "*"

\* TABLE_NAME_RE.findall(s), scanning from i
RECURSIVE FindTableNames(_, _)
FindTableNames(s, i) ==
    LET hits == {j \in i..Len(s) : TableNameAt(s, j, WordEnd(s, j))}
        j == Min(hits)
    IN  IF hits = {} THEN <<>>
        ELSE <<SubSeq(s, j, WordEnd(s, j))>> \o FindTableNames(s, WordEnd(s, j) + 1)

\* line 177
TablesOfLine(line) == FindTableNames(RemoveStrings(line), 1)

-----------------------------------------------------------------------------
(* _build_sql_from_expr *)

USING_MARK == <<" ","U","S","I","N","G","(">>
DEFAULT_USING == <<"U","S","I","N","G","(","d","a","t","e",","," ","i","n","s","t","r","u","m","e","n","t",")">>
JOIN_SEP == <<"\n"," "," "," "," ","J","O","I","N"," ">>
DROP_NA == <<"C","O","L","U","M","N","S","(","*",")"," ","I","S"," ","N","O","T"," ","N","U","L","L">>
QUALIFY == <<"Q","U","A","L","I","F","Y","\n"," "," "," "," ">>
AND_SEP == <<"\n"," "," "," "," ","A","N","D"," ">>
ORDER_BY == <<"O","R","D","E","R"," ","B","Y"," ">>
EXPR_SEP == <<",","\n"," "," "," "," ">>

\* line 175, first list: the stripped non-blank entries of default_tables
DefaultEntries(default_tables) ==
    LET raw == Split(default_tables, ";")
    IN  SelectSeq([i \in 1..Len(raw) |-> Strip(raw[i])], LAMBDA x : x # <<>>)

\* lines 175-177: defaults, then the inputs' table ids, then the extracted names
AllTables(default_tables, it, lines) ==
    DefaultEntries(default_tables)
        \o [i \in 1..Len(it.items) |-> it.items[i].table_id]
        \o Concat([i \in 1..Len(lines) |-> TablesOfLine(lines[i])])

\* lines 186-187 and 190-191: an input_* name becomes the input's table id
ResolveInput(it, x) == IF x \in DOMAIN it.map THEN it.map[x].table_id ELSE x

\* PutUsing gone wrong: join_usings.setdefault(key, clause), the first clause stays
PutUsingIfAbsent(join_usings, key, clause) ==
    [k \in DOMAIN join_usings \cup {key} |->
        IF k \in DOMAIN join_usings THEN join_usings[k] ELSE clause]

\* line 188: join_usings[key] = clause
PutUsing(join_usings, key, clause) ==
    [k \in DOMAIN join_usings \cup {key} |-> IF k = key THEN clause ELSE join_usings[k]]

\* AddTable gone wrong: line 193 left out, every occurrence is appended
AddTableAlways(st, x, join_usings) ==
    [join_usings |-> join_usings,
     table_set |-> st.table_set \cup {x},
     table_list |-> Append(st.table_list, x)]

\* lines 193-195
AddTable(st, x, join_usings) ==
    [join_usings |-> join_usings,
     table_set |-> st.table_set \cup {x},
     table_list |-> IF x \notin st.table_set THEN Append(st.table_list, x) ELSE st.table_list]

\* lines 183-195: one iteration of the loop over tables
DedupStep(st, x, it) ==
    IF Contains(x, USING_MARK)
    THEN LET s == SplitOnce(x, " ")
             s0 == ResolveInput(it, s[1])
         IN  AddTable(st, ResolveInput(it, s0), PutUsing(st.join_usings, s0, s[2]))
    ELSE AddTable(st, ResolveInput(it, x), st.join_usings)

\* lines 179-195
RECURSIVE Dedup(_, _, _)
Dedup(st, tables, it) ==
    IF tables = <<>> THEN st
    ELSE Dedup(DedupStep(st, Head(tables), it), Tail(tables), it)

DedupInit == [join_usings |-> <<>>, table_set |-> {}, table_list |-> <<>>]

\* JoinClause gone wrong: join_usings is not looked at
DefaultJoinClause(join_usings, t) == DEFAULT_USING

\* line 197: join_usings.get(t, "USING(date, instrument)").strip()
JoinClause(join_usings, t) ==
    Strip(IF t \in DOMAIN join_usings THEN join_usings[t] ELSE DEFAULT_USING)

\* WithJoins gone wrong: range(0, ...) at line 196, the first table gets a clause too
WithJoinsFromFirst(st) ==
    [i \in 1..Len(st.table_list) |->
        st.table_list[i] \o <<" ">> \o JoinClause(st.join_usings, st.table_list[i])]

\* lines 196-197
WithJoins(st) ==
    [i \in 1..Len(st.table_list) |->
        IF i = 1 THEN st.table_list[i]
        ELSE st.table_list[i] \o <<" ">> \o JoinClause(st.join_usings, st.table_list[i])]

\* FilterLines gone wrong: the predicate is added only when there is no filter line
FilterLinesIfNone(filter_lines, expr_drop_na) ==
    IF expr_drop_na /\ filter_lines = <<>> THEN <<DROP_NA>> ELSE filter_lines

\* lines 201-202
FilterLines(filter_lines, expr_drop_na) ==
    IF expr_drop_na THEN Append(filter_lines, DROP_NA) ELSE filter_lines

\* lines 203-205
Qualify(filter_lines) ==
    IF filter_lines # <<>> THEN QUALIFY \o Join(filter_lines, AND_SEP) ELSE <<>>

\* lines 208-209
OrderBy(order_by) == IF order_by # <<>> THEN ORDER_BY \o order_by ELSE order_by

\* EXPR_SQL_TEMPLATE.format(...)
FormatTemplate(expr, tables, qualify, order_by) ==
    <<"\n","S","E","L","E","C","T","\n"," "," "," "," ">> \o expr \o <<"\n","F","R","O","M"," ">> \o tables \o <<"\n">> \o qualify
        \o <<"\n">> \o order_by \o <<"\n">>

\* _build_sql_from_expr: its locals at the return
BuildSqlFromExpr(expr, expr_filters, default_tables, order_by, expr_drop_na, it) ==
    LET expr_lines == SplitExpr(expr)
        filter_lines == SplitExpr(expr_filters)
        st == Dedup(DedupInit, AllTables(default_tables, it, expr_lines \o filter_lines), it)
        tables == Join(WithJoins(st), JOIN_SEP)
        all_filters == FilterLines(filter_lines, expr_drop_na)
        qualify == Qualify(all_filters)
    IN  [table_list |-> st.table_list,
         tables |-> tables,
         qualify |-> qualify,
         sql |-> FormatTemplate(Join(expr_lines, EXPR_SEP), tables, qualify, OrderBy(order_by))]

-----------------------------------------------------------------------------
(* run *)

\* the one character U+FF1B, the full-width semicolon of line 267
FULLWIDTH_SEMICOLON == "U+FF1B"

\* s.replace(a, b) for single characters a and b
ReplaceChar(s, a, b) == [i \in 1..Len(s) |-> IF s[i] = a THEN b ELSE s[i]]

\* WordAt gone wrong: \bname, with no \b after the name
WordStartAt(s, name, i, e) ==
    /\ e <= Len(s)
    /\ SubSeq(s, i, e) = name
    /\ i = 1 \/ ~IsWordChar(s[i - 1])

\* \bname\b matches at i, ending at e
WordAt(s, name, i, e) ==
    /\ e <= Len(s)
    /\ SubSeq(s, i, e) = name
    /\ i = 1 \/ ~IsWordChar(s[i - 1])
    /\ e = Len(s) \/ ~IsWordChar(s[e + 1])

\* re.sub(rf'\b{name}\b', repl, s), scanning from i
RECURSIVE ReSubWord(_, _, _, _)
ReSubWord(name, repl, s, i) ==
    LET hits == {j \in i..Len(s) : WordAt(s, name, j, j + Len(name) - 1)}
        j == Min(hits)
    IN  IF hits = {} THEN From(s, i)
        ELSE SubSeq(s, i, j - 1) \o repl \o ReSubWord(name, repl, s, j + Len(name))

\* lines 285-286
RECURSIVE SubstituteInputs(_, _)
SubstituteInputs(items, sql) ==
    IF items = <<>> THEN sql
    ELSE SubstituteInputs(Tail(items), ReSubWord(Head(items).name, Head(items).table_id, sql, 1))

\* line 276, first argument
ExprWithExtra(p) == p.expr \o <<"\n">> \o ReplaceChar(p.extra_fields, ",", "\n")

\* lines 275-277
RunBuild(p, it) ==
    BuildSqlFromExpr(ExprWithExtra(p), p.expr_filters, p.expr_tables, p.order_by,
                     p.expr_drop_na, it)

\* lines 270-282, mode being MODES[mode] and b the locals of lines 275-277
BaseSql(p, b) ==
    IF p.mode = "expr"
    THEN IF p.expr_add_sql THEN Strip(p.sql) \o <<"\n">> \o b.sql ELSE b.sql
    ELSE p.sql

\* line 288
Assemble(prep, sql) == prep \o sql

\* FinalSql gone wrong: line 288 moved before the loop of lines 285-286
FinalSqlSubstitutedLast(it, base) == SubstituteInputs(it.items, Assemble(it.sql, base))

\* lines 284-288
FinalSql(it, base) == Assemble(it.sql, SubstituteInputs(it.items, base))

\* lines 265-268: what makes run raise before it builds anything
RunRaises(ins, p) ==
    DsToTablesRaises(ins) \/ \E i \in 1..Len(p.expr_tables) : p.expr_tables[i] = FULLWIDTH_SEMICOLON

-----------------------------------------------------------------------------
(* Arguments explored *)

Unset == <<>>

\* the values uuid.uuid4().hex takes in one run: one per input that line 126
\* is reached for, all different
Hexes(ins) ==
    {h \in [1..3 -> UuidHex \cup {<<>>}] :
        /\ \A k \in 1..3 : h[k] # <<>> <=> (ins[k] # NoneRef /\ HasSql(ins[k]))
        /\ \A i, j \in 1..3 : (i # j /\ h[i] # <<>>) => h[i] # h[j]}

StmtSet == {<<"S","E","L","E","C","T"," ","a"," ","F","R","O","M"," ","t">>, <<"S","E","L","E","C","T"," ","b"," ","F","R","O","M"," ","t","2">>, <<"x">>}
SepSet == {<<";">>, <<";"," ">>, <<";","\n">>}
TailSet == {<<>>, <<";">>, <<";","\n">>}

\* SQL text made of the statements stmts
RECURSIVE ComposeSql(_, _, _)
ComposeSql(stmts, sep, tail) ==
    IF stmts = <<>> THEN <<>>
    ELSE IF Len(stmts) = 1 THEN stmts[1] \o tail
    ELSE stmts[1] \o sep \o ComposeSql(Tail(stmts), sep, tail)

DS_ID == <<"h","1">>

\* the references that carry the SQL text sql, and a bdb handle
RefsOf(sql) == {StrRef(sql), DsRef("json", sql, DS_ID), DsRef("text", sql, DS_ID), DsRef("bdb", <<>>, DS_ID)}

-----------------------------------------------------------------------------
(* _ds_to_table on its own *)

InitDs ==
    /\ pc = "call"
    /\ given \in [stmts : SeqsOf(StmtSet, 0, MaxStmts), sep : SepSet, tail : TailSet]
    /\ ds \in RefsOf(ComposeSql(given.stmts, given.sep, given.tail))
    /\ table = Unset
    /\ inputs = Unset
    /\ params = Unset
    /\ input_tables = Unset
    /\ built = Unset
    /\ base_sql = Unset
    /\ final_sql = Unset

DsToTableReturn ==
    /\ pc = "call"
    /\ ~DsRaises(ds)
    /\ \E hex \in UuidHex : table' = DsToTable(ds, hex)
    /\ pc' = "return"
    /\ UNCHANGED <<given, ds, inputs, params, input_tables, built, base_sql, final_sql>>

DsToTableRaise ==
    /\ pc = "call"
    /\ DsRaises(ds)
    /\ pc' = "raise"
    /\ UNCHANGED <<given, ds, table, inputs, params, input_tables, built, base_sql, final_sql>>

NextDs == DsToTableReturn \/ DsToTableRaise

SpecDs == InitDs /\ [][NextDs]_vars

-----------------------------------------------------------------------------
(* _build_sql_from_expr on its own *)

\* default-table entries: a leading identifier and an optional USING clause
EntrySet ==
    {[id |-> e[1], using |-> e[2]] :
        e \in {<<<<"a">>, <<>> >>, <<<<"a">>, <<"U","S","I","N","G","(","i","d",")">>>>, <<<<"a">>, <<"U","S","I","N","G","(","k",")">>>>,
               <<<<"b">>, <<>> >>, <<<<"i","n","p","u","t","_","1">>, <<"U","S","I","N","G","(","i","d",")">>>>}}

\* the text of one entry of default_tables
EntryText(e) == IF e.using = <<>> THEN e.id ELSE e.id \o <<" ">> \o e.using

\* default_tables as typed: entries separated by ";", blanks around them allowed
DefaultTablesText(entries) ==
    Join([i \in 1..Len(entries) |-> EntryText(entries[i])], <<";"," ">>)

ExprSet ==
    {<<"a",".","x"," ","+"," ","b",".","y"," ","A","S"," ","z">>,
     <<"m","_","l","a","g","(","c","l","o","s","e",","," ","1",")"," ","A","S"," ","p","r","e","v","_","c","l","o","s","e">>,
     <<"c","l","o","s","e","\n","\n"," "," ","-","-"," ","c",".","w","\n","i","n","p","u","t","_","1",".","v","\n">>,
     <<"s"," ","="," ","'","q",".","r","'","\n","b",".","y">>,
     <<"\"","'","\""," ","="," ","'","q",".","r","'">>}

FilterSet ==
    {<<>>, <<"-","-"," ","c",".","w"," ",">"," ","0","\n">>, <<"b",".","y"," ",">"," ","0","\n","#"," ","c",".","w"," ",">"," ","0","\n","a",".","x"," ","<"," ","1","\n">>, <<"i"," ","i","n"," ","(","'","i","t","'","'","s"," ","q",".","r","'",")">>}

\* the input_tables values explored: _ds_to_tables of these bindings
BindingSet ==
    {<<NoneRef, NoneRef, NoneRef>>,
     <<StrRef(<<"x">>), NoneRef, NoneRef>>,
     <<DsRef("bdb", <<>>, DS_ID), NoneRef, StrRef(<<"x">>)>>}

InitExpr ==
    /\ pc = "call"
    /\ given \in [defaults : SeqsOf(EntrySet, 0, MaxDefaults)]
    /\ params \in [expr : ExprSet,
                   expr_filters : FilterSet,
                   default_tables : {DefaultTablesText(given.defaults)},
                   order_by : {<<"d","a","t","e",","," ","i","n","s","t","r","u","m","e","n","t">>},
                   expr_drop_na : BOOLEAN]
    /\ \E b \in BindingSet : input_tables = DsToTables(b, CHOOSE h \in Hexes(b) : TRUE)
    /\ ds = Unset
    /\ table = Unset
    /\ inputs = Unset
    /\ built = Unset
    /\ base_sql = Unset
    /\ final_sql = Unset

BuildSqlFromExprReturn ==
    /\ pc = "call"
    /\ built' = BuildSqlFromExpr(params.expr, params.expr_filters, params.default_tables,
                                 params.order_by, params.expr_drop_na, input_tables)
    /\ pc' = "return"
    /\ UNCHANGED <<given, ds, table, inputs, params, input_tables, base_sql, final_sql>>

NextExpr == BuildSqlFromExprReturn

SpecExpr == InitExpr /\ [][NextExpr]_vars

-----------------------------------------------------------------------------
(* run *)

\* the pieces sql and expr are put together from
PieceSet == {<<"i","n","p","u","t","_","1">>, <<"i","n","p","u","t","_","2">>, <<"i","n","p","u","t","_","3">>, <<"0",".">>}

\* the bindings explored for input_1, input_2, input_3
SlotRefs ==
    <<{NoneRef, StrRef(<<"t",";"," ","i","n","p","u","t","_","1"," ","i","n","p","u","t","_","2">>), DsRef("bdb", <<>>, DS_ID)},
      {NoneRef, DsRef("json", <<"i","n","p","u","t","_","1",".","i","n","p","u","t","_","2",";","\n">>, DS_ID)},
      {NoneRef, StrRef(<<"i","n","p","u","t","_","3">>), StrRef(<<" ">>)}>>

ParamSet ==
    {[mode |-> m[1], expr_add_sql |-> m[2], expr_tables |-> m[3],
      expr_filters |-> <<>>, extra_fields |-> <<"d","a","t","e",","," ","i","n","s","t","r","u","m","e","n","t">>,
      order_by |-> <<"d","a","t","e",","," ","i","n","s","t","r","u","m","e","n","t">>, expr_drop_na |-> TRUE] :
        m \in {<<"sql", FALSE, <<"t">>>>, <<"expr", FALSE, <<"i","n","p","u","t","_","2">>>>,
               <<"expr", TRUE, <<"t">>>>,
               <<"sql", FALSE, <<"t", FULLWIDTH_SEMICOLON, "u">> >>}}

InitRun ==
    /\ pc = "call"
    /\ given \in [pieces : SeqsOf(PieceSet, 0, MaxPieces)]
    /\ inputs \in {i \in [1..3 -> UNION {SlotRefs[k] : k \in 1..3}] :
                      \A k \in 1..3 : i[k] \in SlotRefs[k]}
    /\ \E q \in ParamSet :
          params = [mode |-> q.mode, expr_add_sql |-> q.expr_add_sql,
                    expr_tables |-> q.expr_tables, expr_filters |-> q.expr_filters,
                    extra_fields |-> q.extra_fields, order_by |-> q.order_by,
                    expr_drop_na |-> q.expr_drop_na,
                    expr |-> Concat(given.pieces), sql |-> Concat(given.pieces)]
    /\ ds = Unset
    /\ table = Unset
    /\ input_tables = Unset
    /\ built = Unset
    /\ base_sql = Unset
    /\ final_sql = Unset

RunReturn ==
    /\ pc = "call"
    /\ ~RunRaises(inputs, params)
    /\ \E hexes \in Hexes(inputs) :
          /\ input_tables' = DsToTables(inputs, hexes)
          /\ built' = IF params.mode = "expr" THEN RunBuild(params, input_tables') ELSE built
          /\ base_sql' = BaseSql(params, built')
          /\ final_sql' = FinalSql(input_tables', base_sql')
    /\ pc' = "return"
    /\ UNCHANGED <<given, ds, table, inputs, params>>

RunRaise ==
    /\ pc = "call"
    /\ RunRaises(inputs, params)
    /\ pc' = "raise"
    /\ UNCHANGED <<given, ds, table, inputs, params, input_tables, built, base_sql, final_sql>>

NextRun == RunReturn \/ RunRaise

SpecRun == InitRun /\ [][NextRun]_vars

-----------------------------------------------------------------------------
(* Properties of _ds_to_table, under SpecDs *)

\* what the statements stmts are to become: all but the last as they are, the
\* last one behind CREATE TABLE id AS, each followed by ";" and a line break
ExpectedPrep(stmts, id) ==
    Concat([i \in 1..Len(stmts) |->
               (IF i = Len(stmts) THEN CREATE_TABLE \o id \o AS_ \o stmts[i] ELSE stmts[i])
                   \o STMT_END])

GeneratedIds == {T_PREFIX \o hex : hex \in UuidHex}

\* C1: for a DataSource whose type tag is "text" the payload read is the SQL
\* text: the preparatory SQL is not empty, its last statement is rewritten into
\* CREATE TABLE <generated id> AS ..., and the table id returned is that
\* generated id, not the id of the DataSource
C1_TextTagIsSqlBacked ==
    (pc = "return" /\ ds.kind = "DataSource" /\ ds.type = "text" /\ given.stmts # <<>>)
        => /\ table.table_id \in GeneratedIds
           /\ table.table_id # ds.id
           /\ table.sql # <<>>
           /\ table.sql = ExpectedPrep(given.stmts, table.table_id)

\* C6: for SQL text made of the statements s1; ...; sn (n >= 1) that reaches
\* the SQL-backed case (a str, or a DataSource tagged "json"), the preparatory
\* SQL is s1 .. s(n-1) unchanged and in order, then CREATE TABLE <id> AS sn,
\* each followed by ";" and a line break, and the table id returned is the
\* <id> of the CREATE TABLE, a generated one
C6_LastStatementRewritten ==
    (pc = "return" /\ (ds.kind = "str" \/ ds.type = "json") /\ given.stmts # <<>>)
        => /\ table.table_id \in GeneratedIds
           /\ table.sql = ExpectedPrep(given.stmts, table.table_id)

\* C6 witness: SELECT a FROM t; SELECT b FROM t2 passed as a str has been
\* materialized
C6_Witness ==
    /\ pc = "return"
    /\ ds.kind = "str"
    /\ given.stmts = <<<<"S","E","L","E","C","T"," ","a"," ","F","R","O","M"," ","t">>, <<"S","E","L","E","C","T"," ","b"," ","F","R","O","M"," ","t","2">>>>
    /\ \E id \in GeneratedIds :
          /\ table.table_id = id
          /\ table.sql = <<"S","E","L","E","C","T"," ","a"," ","F","R","O","M"," ","t",";","\n">> \o CREATE_TABLE \o id
                             \o <<" ","A","S"," ","S","E","L","E","C","T"," ","b"," ","F","R","O","M"," ","t","2",";","\n">>

-----------------------------------------------------------------------------
(* Properties of run, under SpecRun *)

\* last position of the run of characters that are not \w and starts at i
RECURSIVE GapEnd(_, _)
GapEnd(s, i) == IF i > Len(s) \/ IsWordChar(s[i]) THEN i - 1 ELSE GapEnd(s, i + 1)

\* s cut into its words (maximal runs of \w) and the gaps between them
RECURSIVE Tokens(_, _)
Tokens(s, i) ==
    IF i > Len(s) THEN <<>>
    ELSE IF IsWordChar(s[i])
         THEN <<SubSeq(s, i, WordEnd(s, i))>> \o Tokens(s, WordEnd(s, i) + 1)
         ELSE <<SubSeq(s, i, GapEnd(s, i))>> \o Tokens(s, GapEnd(s, i) + 1)

Bound(k) == inputs[k] # NoneRef

\* the table of input slot k among the materialized ones
TableOfSlot(k) == CHOOSE x \in {input_tables.items[i] : i \in 1..Len(input_tables.items)} :
                      x.name = InputName(k)

\* a word of the base query as it is to appear in the final text
Placed(word) ==
    IF \E k \in 1..3 : Bound(k) /\ word = InputName(k)
    THEN TableOfSlot(CHOOSE k \in 1..3 : word = InputName(k)).table_id
    ELSE word

\* the words and gaps of s from i on, each word as it is to appear in the
\* final text
RECURSIVE PlacedTokens(_, _)
PlacedTokens(s, i) ==
    IF i > Len(s) THEN <<>>
    ELSE IF IsWordChar(s[i])
         THEN <<Placed(SubSeq(s, i, WordEnd(s, i)))>> \o PlacedTokens(s, WordEnd(s, i) + 1)
         ELSE <<SubSeq(s, i, GapEnd(s, i))>> \o PlacedTokens(s, GapEnd(s, i) + 1)

\* the part of final_sql after the preparatory SQL
SubstitutedBase == From(final_sql, Len(input_tables.sql) + 1)

\* C2: word by word, the base query and its substituted form agree, except
\* that each word input_k of a bound slot k has become the table id of that
\* slot; a word that only contains input_k (input_10) is unchanged
C2_WholeWordSubstitution ==
    pc = "return"
        => Tokens(final_sql, Len(input_tables.sql) + 1) = PlacedTokens(base_sql, 1)

\* C2 witness: only input_1 is bound, the SQL is input_10.input_1, and the
\* final text ends with input_10.<table id of input_1>
C2_Witness ==
    /\ pc = "return"
    /\ Bound(1) /\ ~Bound(2) /\ ~Bound(3)
    /\ params.mode = "sql"
    /\ base_sql = <<"i","n","p","u","t","_","1","0",".","i","n","p","u","t","_","1">>
    /\ SubstitutedBase = <<"i","n","p","u","t","_","1","0",".">> \o TableOfSlot(1).table_id

\* the preparatory SQL of slot k, nothing for an unbound slot
PrepOfSlot(k) == IF Bound(k) THEN TableOfSlot(k).sql ELSE <<>>

\* the base query with each word replaced as Placed says
PlacedBase == Concat(PlacedTokens(base_sql, 1))

\* C7: the final text is the preparatory SQL of slots 1, 2, 3 in this order,
\* as materialized (placeholders in it untouched), followed by the
\* substituted base query
C7_PrepThenBase ==
    pc = "return"
        => final_sql = PrepOfSlot(1) \o PrepOfSlot(2) \o PrepOfSlot(3) \o PlacedBase

\* C7 witness: inputs 1 and 3 are SQL text naming input_1 and input_3, input 2
\* is unbound, the base query names input_1, and the final text starts with
\* both CREATE TABLE statements, input_1 and input_3 still in them
C7_Witness ==
    /\ pc = "return"
    /\ inputs = <<StrRef(<<"t",";"," ","i","n","p","u","t","_","1"," ","i","n","p","u","t","_","2">>), NoneRef, StrRef(<<"i","n","p","u","t","_","3">>)>>
    /\ \E i \in 1..Len(given.pieces) : given.pieces[i] = <<"i","n","p","u","t","_","1">>
    /\ base_sql # PlacedBase
    /\ StartsWith(final_sql,
                  <<"t",";","\n">> \o CREATE_TABLE \o TableOfSlot(1).table_id \o <<" ","A","S"," ","i","n","p","u","t","_","1"," ","i","n","p","u","t","_","2",";","\n">>
                      \o CREATE_TABLE \o TableOfSlot(3).table_id \o <<" ","A","S"," ","i","n","p","u","t","_","3",";","\n">>)

-----------------------------------------------------------------------------
(* Properties of _build_sql_from_expr, under SpecExpr *)

\* s cut at every occurrence of sep
RECURSIVE SplitBy(_, _)
SplitBy(s, sep) ==
    LET at == {i \in 1..(Len(s) - Len(sep) + 1) : SubSeq(s, i, i + Len(sep) - 1) = sep}
    IN  IF at = {} THEN <<s>>
        ELSE <<SubSeq(s, 1, Min(at) - 1)>> \o SplitBy(From(s, Min(at) + Len(sep)), sep)

\* the entries of the compiled FROM clause, in order
FromEntries == IF built.tables = <<>> THEN <<>> ELSE SplitBy(built.tables, JOIN_SEP)

\* the table an entry of the FROM clause names
LeadOf(e) == SubSeq(e, 1, FirstKept(e, WordChars, 1) - 1)

\* what follows the table in an entry of the FROM clause
ClauseOf(e) == From(e, FirstKept(e, WordChars, 1) + 1)

LeadsOf(entries) == [n \in 1..Len(entries) |-> LeadOf(entries[n])]

FromLeads == LeadsOf(FromEntries)

\* the table id an identifier stands for: the materialized table for the
\* placeholder of a bound input, the identifier itself otherwise
Resolved(id) ==
    LET hit == {i \in 1..Len(input_tables.items) : input_tables.items[i].name = id}
    IN  IF hit = {} THEN id ELSE input_tables.items[Min(hit)].table_id

CodeLines == SplitExpr(params.expr) \o SplitExpr(params.expr_filters)

\* the leading identifiers of the merged table list, resolved: the default
\* tables, the bound inputs in slot order, the references of each line
MergedIds ==
    [i \in 1..Len(given.defaults) |-> Resolved(given.defaults[i].id)]
        \o [i \in 1..Len(input_tables.items) |-> input_tables.items[i].table_id]
        \o Concat([l \in 1..Len(CodeLines) |->
                      [r \in 1..Len(TablesOfLine(CodeLines[l])) |->
                          Resolved(TablesOfLine(CodeLines[l])[r])]])

\* ids without the repetitions, each id where it first occurs
RECURSIVE FirstSeen(_, _)
FirstSeen(ids, i) ==
    IF i > Len(ids) THEN <<>>
    ELSE IF \E j \in 1..(i - 1) : ids[j] = ids[i] THEN FirstSeen(ids, i + 1)
    ELSE <<ids[i]>> \o FirstSeen(ids, i + 1)

\* where the default tables give the table id an explicit USING clause
ExplicitAt(id) ==
    {i \in 1..Len(given.defaults) :
        given.defaults[i].using # <<>> /\ Resolved(given.defaults[i].id) = id}

\* the entry e of the FROM clause is its table followed by a USING clause
\* given for that table, or by USING(date, instrument) if none was given
Joined(e) ==
    IF ExplicitAt(LeadOf(e)) # {}
    THEN \E i \in ExplicitAt(LeadOf(e)) : e = LeadOf(e) \o <<" ">> \o given.defaults[i].using
    ELSE e = LeadOf(e) \o <<" ">> \o DEFAULT_USING

\* the first of entries is a bare table, the others are Joined
BareThenJoined(entries) ==
    \A n \in 1..Len(entries) :
        IF n = 1 THEN entries[n] = LeadOf(entries[n]) ELSE Joined(entries[n])

\* C5: the tables of the FROM clause are the leading identifiers of the
\* merged list (defaults, bound inputs, extracted references; placeholders
\* resolved), each exactly once, at the place of its first occurrence
C5_EveryTableOnce ==
    pc = "return" => FromLeads = FirstSeen(MergedIds, 1)

\* C5 witness: input_1 is bound, named by a default table and referenced by
\* the expression; its table is in the FROM clause once, two tables in all
C5_Witness ==
    /\ pc = "return"
    /\ given.defaults = <<[id |-> <<"b">>, using |-> <<>>], [id |-> <<"i","n","p","u","t","_","1">>, using |-> <<"U","S","I","N","G","(","i","d",")">>]>>
    /\ params.expr = <<"c","l","o","s","e","\n","\n"," "," ","-","-"," ","c",".","w","\n","i","n","p","u","t","_","1",".","v","\n">>
    /\ params.expr_filters = <<>>
    /\ Len(input_tables.items) = 1
    /\ Len(MergedIds) = 4
    /\ FromLeads = <<<<"b">>, input_tables.items[1].table_id>>

\* C4: the first table of the FROM clause stands bare; each later table is
\* followed by one of the explicit USING clauses given for it if there is
\* any, by USING(date, instrument) otherwise; a.x + b.y AS z with no default
\* table and no input gives a JOIN b USING(date, instrument)
C4_JoinRendering ==
    pc = "return"
        => /\ BareThenJoined(FromEntries)
           /\ (/\ params.expr = <<"a",".","x"," ","+"," ","b",".","y"," ","A","S"," ","z">>
               /\ given.defaults = <<>>
               /\ input_tables.items = <<>>)
                  => built.tables = <<"a","\n"," "," "," "," ","J","O","I","N"," ","b"," ","U","S","I","N","G","(","d","a","t","e",","," ","i","n","s","t","r","u","m","e","n","t",")">>

\* C4 witness: a.x + b.y AS z compiled with no default table, no input and no
\* filter
C4_Witness ==
    /\ pc = "return"
    /\ params.expr = <<"a",".","x"," ","+"," ","b",".","y"," ","A","S"," ","z">>
    /\ params.expr_filters = <<>>
    /\ given.defaults = <<>>
    /\ input_tables.items = <<>>
    /\ Contains(built.sql, <<"\n","F","R","O","M"," ","a","\n"," "," "," "," ","J","O","I","N"," ","b"," ","U","S","I","N","G","(","d","a","t","e",","," ","i","n","s","t","r","u","m","e","n","t",")","\n">>)

\* C3 as stated: every default table given as tbl USING(cols), wherever it
\* stands in the list, has tbl USING(cols) in the FROM clause
C3_UsingAtAnyPosition ==
    pc = "return"
        => \A i \in 1..Len(given.defaults) :
              given.defaults[i].using # <<>>
                  => Contains(built.tables,
                              Resolved(given.defaults[i].id) \o <<" ">> \o given.defaults[i].using)

\* C3 amended: a default table given as tbl USING(cols) has the entry
\* JOIN tbl USING(cols) in the FROM clause, unless tbl is the table of the
\* first entry of the list (rendered bare) or a later entry gives tbl
\* another USING clause
C3_UsingWhenJoined ==
    pc = "return"
        => \A i \in 1..Len(given.defaults) :
              (/\ given.defaults[i].using # <<>>
               /\ Resolved(given.defaults[i].id) # Resolved(given.defaults[1].id)
               /\ \A j \in ExplicitAt(Resolved(given.defaults[i].id)) : j <= i)
                  => /\ \E n \in 2..Len(FromEntries) :
                          FromEntries[n] = Resolved(given.defaults[i].id) \o <<" ">>
                                               \o given.defaults[i].using
                     /\ Contains(built.sql,
                                 JOIN_SEP \o Resolved(given.defaults[i].id) \o <<" ">>
                                     \o given.defaults[i].using \o <<"\n">>)

\* C3 witness: b; input_1 USING(id) with input_1 bound: the table of input_1
\* is joined with USING(id)
C3_Witness ==
    /\ pc = "return"
    /\ given.defaults = <<[id |-> <<"b">>, using |-> <<>>], [id |-> <<"i","n","p","u","t","_","1">>, using |-> <<"U","S","I","N","G","(","i","d",")">>]>>
    /\ Len(input_tables.items) = 1
    /\ FromEntries[2] = input_tables.items[1].table_id \o <<" ","U","S","I","N","G","(","i","d",")">>

\* the last explicit USING clause the default tables give for the table id
LastExplicit(id) ==
    given.defaults[CHOOSE i \in ExplicitAt(id) : \A j \in ExplicitAt(id) : j <= i].using

\* the table id, occurring several times in ids, has one entry among entries,
\* placed by its first occurrence in ids and, if it is joined and has an
\* explicit USING clause, rendered with the last one
OnceWithLastUsing(id, ids, entries) ==
    LET first == Min({i \in 1..Len(ids) : ids[i] = id})
        n == Cardinality({ids[j] : j \in 1..(first - 1)}) + 1
    IN  /\ {m \in 1..Len(entries) : LeadOf(entries[m]) = id} = {n}
        /\ (n > 1 /\ ExplicitAt(id) # {}) => ClauseOf(entries[n]) = LastExplicit(id)

Repeated(ids) ==
    {ids[i] : i \in {i \in 1..Len(ids) : \E j \in 1..Len(ids) : j # i /\ ids[j] = ids[i]}}

AllOnceWithLastUsing(ids, entries) ==
    \A id \in Repeated(ids) : OnceWithLastUsing(id, ids, entries)

\* C10: a table that occurs several times in the merged list has one entry
\* in the FROM clause, placed by its first occurrence; if explicit USING
\* clauses were given for it, the clause rendered for it is the last of them,
\* whatever occurrences without a clause come before or after
C10_LastExplicitUsingWins ==
    pc = "return"
        => AllOnceWithLastUsing(MergedIds, FromEntries)

\* C10 witness: b; a USING(id); a USING(k) and an expression that refers to
\* a again: a is joined once, with USING(k)
C10_Witness ==
    /\ pc = "return"
    /\ given.defaults = <<[id |-> <<"b">>, using |-> <<>>], [id |-> <<"a">>, using |-> <<"U","S","I","N","G","(","i","d",")">>],
                          [id |-> <<"a">>, using |-> <<"U","S","I","N","G","(","k",")">>]>>
    /\ params.expr = <<"a",".","x"," ","+"," ","b",".","y"," ","A","S"," ","z">>
    /\ input_tables.items = <<>>
    /\ built.tables = <<"b","\n"," "," "," "," ","J","O","I","N"," ","a"," ","U","S","I","N","G","(","k",")">>

\* the filter lines each explored filter block holds
UserFilterLines ==
    IF params.expr_filters = <<"b",".","y"," ",">"," ","0","\n","#"," ","c",".","w"," ",">"," ","0","\n","a",".","x"," ","<"," ","1","\n">> THEN <<<<"b",".","y"," ",">"," ","0">>, <<"a",".","x"," ","<"," ","1">>>>
    ELSE IF params.expr_filters = <<"i"," ","i","n"," ","(","'","i","t","'","'","s"," ","q",".","r","'",")">> THEN <<<<"i"," ","i","n"," ","(","'","i","t","'","'","s"," ","q",".","r","'",")">>>>
    ELSE <<>>

\* C8: with expr_drop_na the compiled query has a QUALIFY clause made of the
\* user's filter lines in their order and COLUMNS(*) IS NOT NULL, joined by
\* AND, whatever the filter block is
C8_DropNaInQualify ==
    (pc = "return" /\ params.expr_drop_na)
        => /\ DROP_NA \in {SplitBy(built.qualify, AND_SEP)[i] :
                              i \in 1..Len(SplitBy(built.qualify, AND_SEP))}
                  \cup {From(SplitBy(built.qualify, AND_SEP)[1], Len(QUALIFY) + 1)}
           /\ Contains(built.sql,
                       <<"\n">> \o QUALIFY \o Join(UserFilterLines \o <<DROP_NA>>, AND_SEP)
                           \o <<"\n">>)

\* C8 witness: two filter lines and a comment, expr_drop_na set
C8_Witness ==
    /\ pc = "return"
    /\ params.expr_drop_na
    /\ params.expr_filters = <<"b",".","y"," ",">"," ","0","\n","#"," ","c",".","w"," ",">"," ","0","\n","a",".","x"," ","<"," ","1","\n">>
    /\ Contains(built.sql,
                <<"\n","Q","U","A","L","I","F","Y","\n"," "," "," "," ","b",".","y"," ",">"," ","0","\n"," "," "," "," ","A","N","D"," ","a",".","x"," ","<"," ","1","\n"," "," "," "," ","A","N","D"," ","C","O","L","U","M","N","S","(","*",")"," ","I","S"," ","N","O","T"," ","N","U","L","L","\n">>)

DQUOTE == "\""

\* The positions of s from i on that lie inside a single-quoted literal, s
\* read as SQL: a literal runs from ' to the next ' that is not doubled, a
\* quoted identifier from " to the next ". at tells what position i is in.
RECURSIVE LiteralPositions(_, _, _)
LiteralPositions(s, i, at) ==
    IF i > Len(s) THEN {}
    ELSE IF at = "literal"
         THEN IF s[i] # QUOTE THEN {i} \cup LiteralPositions(s, i + 1, "literal")
              ELSE IF i < Len(s) /\ s[i + 1] = QUOTE THEN LiteralPositions(s, i + 2, "literal")
              ELSE LiteralPositions(s, i + 1, "code")
    ELSE IF at = "identifier"
         THEN LiteralPositions(s, i + 1, IF s[i] = DQUOTE THEN "code" ELSE "identifier")
    ELSE LiteralPositions(s, i + 1,
                          IF s[i] = QUOTE THEN "literal"
                          ELSE IF s[i] = DQUOTE THEN "identifier" ELSE "code")

\* Every ' of s from i on delimits a literal or is doubled inside one: none
\* stands inside a quoted identifier, and no literal is left open.
RECURSIVE QuotesAreLiterals(_, _, _)
QuotesAreLiterals(s, i, at) ==
    IF i > Len(s) THEN at # "literal"
    ELSE IF at = "literal"
         THEN IF s[i] # QUOTE THEN QuotesAreLiterals(s, i + 1, "literal")
              ELSE IF i < Len(s) /\ s[i + 1] = QUOTE THEN QuotesAreLiterals(s, i + 2, "literal")
              ELSE QuotesAreLiterals(s, i + 1, "code")
    ELSE IF at = "identifier"
         THEN s[i] # QUOTE
                  /\ QuotesAreLiterals(s, i + 1, IF s[i] = DQUOTE THEN "code" ELSE "identifier")
    ELSE QuotesAreLiterals(s, i + 1,
                           IF s[i] = QUOTE THEN "literal"
                           ELSE IF s[i] = DQUOTE THEN "identifier" ELSE "code")

\* the identifiers of s that start at one of the positions
IdentifiersAt(s, positions) ==
    {SubSeq(s, i, WordEnd(s, i)) :
        i \in {p \in positions : IsIdentStart(s[p]) /\ (p = 1 \/ ~IsWordChar(s[p - 1]))}}

\* the identifiers inside the single-quoted literals of line
LiteralIdentifiers(line) == IdentifiersAt(line, LiteralPositions(line, 1, "code"))

\* the identifiers of line outside its single-quoted literals
OtherIdentifiers(line) ==
    IdentifiersAt(line, (1..Len(line)) \ LiteralPositions(line, 1, "code"))

\* the identifiers that occur in the lines inside single-quoted literals
\* only, and are no table of ids either
OnlyInLiterals(lines, ids) ==
    UNION {LiteralIdentifiers(lines[l]) : l \in 1..Len(lines)}
        \ (UNION {OtherIdentifiers(lines[l]) : l \in 1..Len(lines)}
               \cup {ids[i] : i \in 1..Len(ids)})

\* none of the identifiers is a table of the FROM clause entries
NoneJoined(identifiers, entries) ==
    \A n \in 1..Len(entries) : LeadOf(entries[n]) \notin identifiers

GivenIds ==
    [i \in 1..Len(given.defaults) |-> Resolved(given.defaults[i].id)]
        \o [i \in 1..Len(input_tables.items) |-> input_tables.items[i].table_id]

\* C9 as stated: an identifier that occurs only inside single-quoted
\* literals of the expression and filter lines is never a table of the FROM
\* clause
C9_LiteralsNeverExtracted ==
    pc = "return" => NoneJoined(OnlyInLiterals(CodeLines, GivenIds), FromEntries)

AllQuotesAreLiterals(lines) == \A l \in 1..Len(lines) : QuotesAreLiterals(lines[l], 1, "code")

\* C9 amended: the same, for lines in which every ' delimits a single-quoted
\* literal or is doubled inside one (no ' stands inside a double-quoted
\* identifier, no literal is left open)
C9_LiteralsNotExtractedWhenPaired ==
    (pc = "return" /\ AllQuotesAreLiterals(CodeLines))
        => NoneJoined(OnlyInLiterals(CodeLines, GivenIds), FromEntries)

\* C9 witness: s = 'q.r' and b.y compiled with the filter i in ('it''s q.r'):
\* q occurs in literals only, b is joined, q is not
C9_Witness ==
    /\ pc = "return"
    /\ params.expr = <<"s"," ","="," ","'","q",".","r","'","\n","b",".","y">>
    /\ params.expr_filters = <<"i"," ","i","n"," ","(","'","i","t","'","'","s"," ","q",".","r","'",")">>
    /\ given.defaults = <<>>
    /\ input_tables.items = <<>>
    /\ <<"q">> \in OnlyInLiterals(CodeLines, GivenIds)
    /\ built.tables = <<"b">>

=============================================================================
